---- MODULE Spec2Model ----
(***************************************************************************)
(* Model of read.py: load_percolation() reads a recorded percolation trace *)
(* (percolation.json, roots.bin, sizes.bin, top_sizes.bin, bonds.bin) and  *)
(* animate_percolation() replays it through the two animation callbacks    *)
(* init() and update(frame).                                               *)
(*                                                                         *)
(* Arrays are sequences: the Python index i is the TLA+ index i + 1.       *)
(* Floating point values are kept in fixed point, in units of 1/FIX.       *)
(***************************************************************************)
EXTENDS Integers, Sequences, FiniteSets, TLC

VARIABLES
    files,              \* the trace on disk: metadata and the four blobs
    pc,                 \* "start", "loaded", "ready", "failed"
    outcome,            \* what the last call did: "none", "ok" or the exception raised
    call,               \* the last callback run: <<"none", 0>>, <<"init", 0>>, <<"update", frame>>
    meta,               \* load_percolation: meta
    roots,              \* load_percolation: roots  (total_states x sites)
    sizes,              \* load_percolation: sizes  (total_states x sites)
    bonds,              \* load_percolation: bonds  (records direction, row, col)
    top_sizes,          \* load_percolation: top_sizes (total_states x top_n)
    coords,             \* animate_percolation: coords
    bond_segments,      \* animate_percolation: bond_segments
    segments,           \* bond_collection's segments
    scatter_offsets,    \* cluster_scatter's offsets
    scatter_sizes,      \* cluster_scatter's sizes
    scatter_facecolors, \* cluster_scatter's face colors
    step_text,          \* step_text's text
    lines,              \* lines: per rank, [x |-> xdata, y |-> ydata]
    first_look          \* history: the first frame update rendered and what it showed

trace == <<meta, roots, sizes, bonds, top_sizes>>
layout == <<coords, bond_segments>>
artists == <<segments, scatter_offsets, scatter_sizes, scatter_facecolors, step_text, lines>>
vars == <<files, pc, outcome, call, trace, layout, artists, first_look>>

(***************************************************************************)
(* Bounds of the model.                                                    *)
(***************************************************************************)
\* the largest number of recorded states (frames) of a trace
MaxT == 4
\* the largest value a damaged entry of sizes.bin takes
MaxSize == 3
\* the grid sides explored (the state space grows as (2L(L-1))^(T-1))
GridSides == {1, 2}

(***************************************************************************)
(* Program constants.                                                      *)
(***************************************************************************)
\* os.getenv("TOP_N", 3)
TOP_N == 3
\* n_bins
N_BINS == 256
\* dtype=np.uint32: bytes of an entry of roots.bin, sizes.bin, top_sizes.bin
U32_BYTES == 4
\* bonds_dtype: u1 + <u4 + <u4, unaligned
BOND_BYTES == 9
\* bonds["direction"] == 1
HORIZONTAL == 1
\* units of the fixed point that stands for float64
FIX == 1000
\* float nan, the result of 0 / 0
NaN == -1

Min(a, b) == IF a < b THEN a ELSE b
Max(a, b) == IF a > b THEN a ELSE b

(***************************************************************************)
(* The recorder (the upstream simulator that writes the trace files).      *)
(* It starts from L*L isolated sites and applies one bond per step under   *)
(* union-find; frame t holds the cluster size of every site after t bonds. *)
(***************************************************************************)
InGridBonds(L) ==
    { [direction |-> d, row |-> r, col |-> c] :
        <<d, r, c>> \in { x \in {0, HORIZONTAL} \X (0 .. L - 1) \X (0 .. L - 1) :
              IF x[1] = HORIZONTAL THEN x[3] + 1 < L ELSE x[2] + 1 < L } }

BondEnds(L, b) ==
    LET a == b.row * L + b.col
    IN  <<a, IF b.direction = HORIZONTAL THEN a + 1 ELSE a + L>>

Union(L, rt, b) ==
    LET e == BondEnds(L, b)
        ra == rt[e[1] + 1]
        rb == rt[e[2] + 1]
        lo == Min(ra, rb)
        hi == Max(ra, rb)
    IN  [i \in 1 .. L * L |-> IF rt[i] = hi THEN lo ELSE rt[i]]

RECURSIVE RecordRoots(_, _, _)
RecordRoots(L, bs, k) ==
    IF k = 0 THEN [i \in 1 .. L * L |-> i - 1]
    ELSE Union(L, RecordRoots(L, bs, k - 1), bs[k])

ClusterSizes(rt) ==
    [i \in 1 .. Len(rt) |-> Cardinality({ j \in 1 .. Len(rt) : rt[j] = rt[i] })]

RECURSIVE RankSizes(_, _, _)
RankSizes(rt, left, k) ==
    IF k = 0 THEN << >>
    ELSE IF left = {} THEN <<0>> \o RankSizes(rt, left, k - 1)
    ELSE LET sz(r) == Cardinality({ j \in 1 .. Len(rt) : rt[j] = r })
             big == CHOOSE r \in left : \A q \in left :
                        sz(r) > sz(q) \/ (sz(r) = sz(q) /\ r <= q)
         IN  <<sz(big)>> \o RankSizes(rt, left \ {big}, k - 1)

RecordTop(rt) == RankSizes(rt, { rt[i] : i \in 1 .. Len(rt) }, TOP_N)

RECURSIVE Flatten(_)
Flatten(rows) ==
    IF rows = << >> THEN << >> ELSE Head(rows) \o Flatten(Tail(rows))

\* A blob: its whole records and the bytes of a trailing partial record.
Blob(items) == [items |-> items, tail |-> 0]

Recorded(L, bs) ==
    LET T == Len(bs) + 1
        rts == [t \in 1 .. T |-> RecordRoots(L, bs, t - 1)]
    IN  [ size |-> L,
          total_states |-> T,
          roots |-> Blob(Flatten(rts)),
          sizes |-> Blob(Flatten([t \in 1 .. T |-> ClusterSizes(rts[t])])),
          top_sizes |-> Blob(Flatten([t \in 1 .. T |-> RecordTop(rts[t])])),
          bonds |-> Blob(bs) ]

RECURSIVE SeqsOf(_, _)
SeqsOf(S, n) ==
    IF n = 0 THEN { << >> }
    ELSE { Append(s, x) : s \in SeqsOf(S, n - 1), x \in S }

\* Damage done to a recorded trace between the recorder and this program.
DropLast(b) == [b EXCEPT !.items = SubSeq(b.items, 1, Len(b.items) - 1)]

Damaged(f, d) ==
    CASE d[1] = "none" -> f
      [] d[1] = "roots_short" -> [f EXCEPT !.roots = DropLast(@)]
      [] d[1] = "sizes_short" -> [f EXCEPT !.sizes = DropLast(@)]
      [] d[1] = "top_sizes_short" -> [f EXCEPT !.top_sizes = DropLast(@)]
      [] d[1] = "sizes_ragged" -> [f EXCEPT !.sizes.tail = 2]
      [] d[1] = "bonds_ragged" -> [f EXCEPT !.bonds.tail = 1]
      [] d[1] = "bonds_short" -> [f EXCEPT !.bonds = DropLast(@)]
      [] d[1] = "bonds_long" ->
            [f EXCEPT !.bonds.items = Append(@, [direction |-> 0, row |-> 0, col |-> 0])]
      [] d[1] = "sizes_entry" -> [f EXCEPT !.sizes.items[d[2]] = d[3]]

LengthDamage ==
    { <<n, 0, 0>> : n \in { "none", "roots_short", "sizes_short", "top_sizes_short",
                           "sizes_ragged", "bonds_ragged", "bonds_short", "bonds_long" } }

\* One entry of sizes.bin overwritten: the entry of the last site of a frame.
EntryDamage(f) ==
    LET n == f.size * f.size
    IN  { <<"sizes_entry", t * n, v>> : t \in 1 .. f.total_states, v \in 0 .. MaxSize }

RecordedTraces ==
    UNION { { Recorded(L, bs) : bs \in SeqsOf(InGridBonds(L), T - 1) } :
            <<L, T>> \in GridSides \X (1 .. MaxT) }

(***************************************************************************)
(* numpy and Python helpers.                                               *)
(***************************************************************************)
\* np.fromfile(name, dtype=np.uint32): the whole entries of the file; the
\* bytes of a trailing partial entry are not read.
FromFile(blob) ==
    SubSeq(blob.items, 1, (U32_BYTES * Len(blob.items) + blob.tail) \div U32_BYTES)

\* ndarray.reshape(r, c) of a flat array; raises ValueError unless r * c entries.
ReshapeOk(flat, r, c) == Len(flat) = r * c
Reshape(flat, r, c) == [i \in 1 .. r |-> SubSeq(flat, (i - 1) * c + 1, i * c)]

\* np.frombuffer(bytes, dtype=bonds_dtype); raises ValueError unless the
\* buffer size is a multiple of the record size.
FromBufferOk(blob) == (BOND_BYTES * Len(blob.items) + blob.tail) % BOND_BYTES = 0
FromBuffer(blob) == blob.items

\* a[i] along the first axis: negative i counts from the end.
IndexOk(a, i) == -Len(a) <= i /\ i < Len(a)
PyIndex(a, i) == IF i < 0 THEN a[Len(a) + i + 1] ELSE a[i + 1]

\* a[:stop] along the first axis: negative stop counts from the end, and
\* the slice is clipped to the array.
PySliceTo(a, stop) ==
    LET e == IF stop < 0 THEN Max(Len(a) + stop, 0) ELSE Min(stop, Len(a))
    IN  SubSeq(a, 1, e)

\* a[:, k] of a two-dimensional array.
Column(a, k) == [t \in 1 .. Len(a) |-> a[t][k + 1]]

\* np.clip(x, lo, hi)
Clip(x, lo, hi) == IF x < lo THEN lo ELSE IF x > hi THEN hi ELSE x

\* np.full(n, v)
Full(n, v) == [i \in 1 .. n |-> v]

\* floor of the square root
RECURSIVE ISqrtIn(_, _, _)
ISqrtIn(n, lo, hi) ==
    IF lo >= hi THEN lo
    ELSE LET mid == (lo + hi + 1) \div 2
         IN  IF mid * mid <= n THEN ISqrtIn(n, mid, hi) ELSE ISqrtIn(n, lo, mid - 1)

\* np.power(x, 0.5) in fixed point; nan stays nan.
SqrtFix(x) ==
    IF x = NaN \/ x = 0 \/ x = FIX THEN x ELSE ISqrtIn(x * FIX, 0, Max(x, FIX))

MulFix(a, b) == IF a = NaN \/ b = NaN THEN NaN ELSE (a * b) \div FIX

\* np.power(x, 0.7) in fixed point: 0.7 = 1/2 + 1/8 + 1/16 + 1/128 + 1/256 + ...
Pow07(x) ==
    LET r2 == SqrtFix(x)
        r4 == SqrtFix(r2)
        r8 == SqrtFix(r4)
        r16 == SqrtFix(r8)
        r128 == SqrtFix(SqrtFix(SqrtFix(r16)))
        r256 == SqrtFix(r128)
    IN  MulFix(MulFix(MulFix(MulFix(r2, r8), r16), r128), r256)

(***************************************************************************)
(* load_percolation                                                        *)
(***************************************************************************)
LoadPercolation ==
    /\ pc = "start"
    /\ LET size == files.size
           sites == size * size
           total_states == files.total_states
           top_n == TOP_N
           r == FromFile(files.roots)
           s == FromFile(files.sizes)
           tp == FromFile(files.top_sizes)
       IN  IF /\ ReshapeOk(r, total_states, sites)
              /\ ReshapeOk(s, total_states, sites)
              /\ ReshapeOk(tp, total_states, top_n)
              /\ FromBufferOk(files.bonds)
           THEN /\ pc' = "loaded"
                /\ outcome' = "ok"
                /\ meta' = [size |-> size, total_states |-> total_states]
                /\ roots' = Reshape(r, total_states, sites)
                /\ sizes' = Reshape(s, total_states, sites)
                /\ top_sizes' = Reshape(tp, total_states, top_n)
                /\ bonds' = FromBuffer(files.bonds)
           ELSE /\ pc' = "failed"
                /\ outcome' = "ValueError"
                /\ UNCHANGED trace
    /\ UNCHANGED <<files, call, layout, artists, first_look>>

(***************************************************************************)
(* animate_percolation, up to the definition of the callbacks              *)
(***************************************************************************)
\* colors[0] and colors[1:] as 8-bit RGB
UNCONNECTED_RGB == <<229, 229, 229>>
GRADIENT_RGB ==
    << <<67, 99, 216>>, <<60, 180, 75>>, <<255, 225, 25>>, <<245, 130, 49>>, <<230, 25, 75>> >>

\* np.array(list(product(range(L), range(L))))
Coords(L) == Flatten([a \in 1 .. L |-> [b \in 1 .. L |-> <<a - 1, b - 1>>]])

\* base_node_size = np.clip(800 / L, 5, 50)
BaseNodeSize(L) == Clip((800 * FIX) \div L, 5 * FIX, 50 * FIX)

\* one entry of bond_segments
BondSegment(b) ==
    IF b.direction = HORIZONTAL
    THEN << <<b.col, b.row>>, <<b.col + 1, b.row>> >>
    ELSE << <<b.col, b.row>>, <<b.col, b.row + 1>> >>

\* bond_segments[mask] = np.array([...]): with no bond under the mask the
\* value has shape (0,), which does not broadcast to (0, 2, 2): ValueError.
BondSegmentsOk(bs) ==
    /\ \E k \in 1 .. Len(bs) : bs[k].direction = HORIZONTAL
    /\ \E k \in 1 .. Len(bs) : bs[k].direction # HORIZONTAL
BondSegments(bs) == [k \in 1 .. Len(bs) |-> BondSegment(bs[k])]

\* ax_grid.scatter(coords[:, 0], coords[:, 1], ...): x, y of every marker
ScatterOffsets(cs) == [i \in 1 .. Len(cs) |-> <<cs[i][1], cs[i][2]>>]

\* steps = np.arange(len(roots))
Steps == [i \in 1 .. Len(roots) |-> i - 1]

\* custom_cmap's lookup table: N_BINS points of the piecewise linear gradient
Lut(bin) ==
    LET pos == bin * (Len(GRADIENT_RGB) - 1)
        k == pos \div (N_BINS - 1)
        m == pos % (N_BINS - 1)
        lo == GRADIENT_RGB[k + 1]
        hi == GRADIENT_RGB[Min(k + 2, Len(GRADIENT_RGB))]
    IN  [c \in 1 .. 3 |-> (lo[c] * (N_BINS - 1) + (hi[c] - lo[c]) * m) \div (N_BINS - 1)]

\* custom_cmap(x) for a float x in [0, 1]; nan maps to the "bad" color.
Cmap(x) ==
    IF x = NaN THEN [rgb |-> <<0, 0, 0>>, a |-> 0]
    ELSE LET bin == (x * N_BINS) \div FIX
         IN  [rgb |-> Lut(Clip(bin, 0, N_BINS - 1)), a |-> FIX]

\* [*to_rgb(unconnected_color), 0.5]
UnconnectedColor == [rgb |-> UNCONNECTED_RGB, a |-> FIX \div 2]

Setup ==
    /\ pc = "loaded"
    /\ IF BondSegmentsOk(bonds)
       THEN /\ pc' = "ready"
            /\ outcome' = "ok"
            /\ coords' = Coords(meta.size)
            /\ bond_segments' = BondSegments(bonds)
            /\ segments' = << >>
            /\ scatter_offsets' = ScatterOffsets(Coords(meta.size))
            /\ scatter_sizes' = <<0>>
            /\ scatter_facecolors' = << >>
            /\ step_text' = <<"Initial Grid", 0>>
            /\ lines' = [k \in 1 .. Len(top_sizes[1]) |-> [x |-> << >>, y |-> << >>]]
       ELSE /\ pc' = "failed"
            /\ outcome' = "ValueError"
            /\ UNCHANGED <<layout, artists>>
    /\ UNCHANGED <<files, call, trace, first_look>>

(***************************************************************************)
(* init                                                                    *)
(***************************************************************************)
AnimInit ==
    /\ pc = "ready"
    /\ LET L == meta.size
       IN  /\ segments' = << >>
           /\ scatter_sizes' = Full(L * L, BaseNodeSize(L))
           /\ scatter_facecolors' = Full(L * L, UnconnectedColor)
           /\ lines' = [k \in 1 .. Len(lines) |-> [x |-> << >>, y |-> << >>]]
    /\ call' = <<"init", 0>>
    /\ outcome' = "ok"
    /\ UNCHANGED <<files, pc, trace, layout, scatter_offsets, step_text, first_look>>

(***************************************************************************)
(* update                                                                  *)
(***************************************************************************)
\* unconnected = state_sizes == 1; connected_mask = ~unconnected (per site)
Unconnected(s) == s = 1
ConnectedMask(s) == ~Unconnected(s)

\* np.any(connected_mask)
AnyConnected(state_sizes) == \E i \in 1 .. Len(state_sizes) : ConnectedMask(state_sizes[i])

\* MaxConnected, were max_size kept from the frame rendered before
MaxConnected_Running(state_sizes) ==
    LET before == IF call[1] = "update" /\ outcome = "ok"
                  THEN PyIndex(sizes, call[2]) ELSE << >>
        c == { state_sizes[i] : i \in { j \in 1 .. Len(state_sizes) : state_sizes[j] # 1 } }
               \cup { before[i] : i \in 1 .. Len(before) }
    IN  CHOOSE m \in c : \A x \in c : x <= m

\* max_size = state_sizes[connected_mask].max()
MaxConnected(state_sizes) ==
    LET c == { state_sizes[i] : i \in { j \in 1 .. Len(state_sizes) : ConnectedMask(state_sizes[j]) } }
    IN  CHOOSE m \in c : \A x \in c : x <= m

\* state_sizes[connected_mask] / max_size, one value per site under the mask
SizeRatio(s, max_size) == IF max_size = 0 THEN NaN ELSE (s * FIX) \div max_size

\* connected_colors: custom_cmap(size_ratios ** 0.7) with alpha 0.5 + 0.5 * size_ratios
ConnectedColor(ratio) ==
    [Cmap(Pow07(ratio)) EXCEPT !.a = IF ratio = NaN THEN NaN ELSE FIX \div 2 + ratio \div 2]

\* base_node_size * (0.5 + 0.5 * (size / max_size) ** 0.5)
ConnectedNodeSize(base, ratio) ==
    IF ratio = NaN THEN NaN
    ELSE (base * (FIX \div 2 + SqrtFix(ratio) \div 2)) \div FIX

\* all_colors: unconnected everywhere, connected_colors under the mask
AllColors(state_sizes) ==
    IF AnyConnected(state_sizes)
    THEN LET max_size == MaxConnected(state_sizes)
         IN  [i \in 1 .. Len(state_sizes) |->
                IF ConnectedMask(state_sizes[i])
                THEN ConnectedColor(SizeRatio(state_sizes[i], max_size))
                ELSE UnconnectedColor]
    ELSE Full(Len(state_sizes), UnconnectedColor)

\* node_sizes: base_node_size everywhere, scaled in place under the mask
NodeSizes(state_sizes, base) ==
    IF AnyConnected(state_sizes)
    THEN LET max_size == MaxConnected(state_sizes)
         IN  [i \in 1 .. Len(state_sizes) |->
                IF ConnectedMask(state_sizes[i])
                THEN ConnectedNodeSize(base, SizeRatio(state_sizes[i], max_size))
                ELSE base]
    ELSE Full(Len(state_sizes), base)

\* StateSizesAfter, were the ratios written back into the view sizes[frame]
StateSizesAfter_Normalized(state_sizes) ==
    IF AnyConnected(state_sizes) /\ MaxConnected(state_sizes) > 0
    THEN [i \in 1 .. Len(state_sizes) |->
            IF ConnectedMask(state_sizes[i])
            THEN state_sizes[i] \div MaxConnected(state_sizes)
            ELSE state_sizes[i]]
    ELSE state_sizes

\* sizes[frame] once update has run: update reads the view and writes only
\* all_colors and node_sizes, which np.full allocates anew on every call.
StateSizesAfter(state_sizes) == state_sizes

\* the segments shown once update(frame) has run
SegmentsAfter(frame) ==
    IF frame > 0 THEN PySliceTo(bond_segments, frame) ELSE segments

\* LineData, were the slices taken up to frame
LineData_UpToFrame(frame, i) ==
    [x |-> PySliceTo(Steps, frame), y |-> Column(PySliceTo(top_sizes, frame), i)]

\* line.set_data(steps[: frame + 1], top_sizes[: frame + 1, i])
LineData(frame, i) ==
    [x |-> PySliceTo(Steps, frame + 1), y |-> Column(PySliceTo(top_sizes, frame + 1), i)]

Update(frame) ==
    /\ pc = "ready"
    /\ call' = <<"update", frame>>
    /\ IF IndexOk(sizes, frame)
       THEN LET state_sizes == PyIndex(sizes, frame)
                L == meta.size
                at == IF frame < 0 THEN Len(sizes) + frame + 1 ELSE frame + 1
            IN  /\ outcome' = "ok"
                /\ segments' = SegmentsAfter(frame)
                /\ scatter_offsets' = coords
                /\ scatter_sizes' = NodeSizes(state_sizes, BaseNodeSize(L))
                /\ scatter_facecolors' = AllColors(state_sizes)
                /\ step_text' = <<"Step", frame>>
                /\ lines' = [k \in 1 .. Len(lines) |-> LineData(frame, k - 1)]
                /\ sizes' = [sizes EXCEPT ![at] = StateSizesAfter(state_sizes)]
                /\ first_look' =
                      IF first_look.on /\ ~first_look.set
                      THEN [ on |-> TRUE, set |-> TRUE, frame |-> at - 1,
                             state_sizes |-> state_sizes,
                             sizes |-> scatter_sizes', facecolors |-> scatter_facecolors' ]
                      ELSE first_look
       ELSE /\ outcome' = "IndexError"
            /\ UNCHANGED <<artists, sizes, first_look>>
    /\ UNCHANGED <<files, pc, meta, roots, bonds, top_sizes, layout>>

(***************************************************************************)
(* The program: load, set up, then the animation driver calls init and     *)
(* update with the frame numbers it chooses.                               *)
(***************************************************************************)
\* the frame numbers asked for: every frame, from the front and from the
\* back, and one number beyond each end
Frames == -(Len(sizes) + 1) .. Len(sizes)

NoLook(on) ==
    [ on |-> on, set |-> FALSE, frame |-> 0,
      state_sizes |-> << >>, sizes |-> << >>, facecolors |-> << >> ]

Blank ==
    /\ pc = "start"
    /\ outcome = "none"
    /\ call = <<"none", 0>>
    /\ meta = [size |-> 0, total_states |-> 0]
    /\ roots = << >>
    /\ sizes = << >>
    /\ bonds = << >>
    /\ top_sizes = << >>
    /\ coords = << >>
    /\ bond_segments = << >>
    /\ segments = << >>
    /\ scatter_offsets = << >>
    /\ scatter_sizes = << >>
    /\ scatter_facecolors = << >>
    /\ step_text = <<"", 0>>
    /\ lines = << >>

Init ==
    /\ \E f \in RecordedTraces : \E d \in LengthDamage :
          /\ d[1] = "bonds_short" => Len(f.bonds.items) > 0
          /\ files = Damaged(f, d)
    /\ Blank
    /\ first_look = NoLook(FALSE)

Next ==
    \/ LoadPercolation
    \/ Setup
    \/ AnimInit
    \/ \E frame \in Frames : Update(frame)

Spec == Init /\ [][Next]_vars

\* The same program on traces of which one entry of sizes.bin is damaged.
InitDamaged ==
    /\ \E f \in RecordedTraces : \E d \in EntryDamage(f) : files = Damaged(f, d)
    /\ Blank
    /\ first_look = NoLook(FALSE)

SpecDamaged == InitDamaged /\ [][Next]_vars

\* The same program on the recorded traces, with the history variable kept.
InitLook ==
    /\ files \in RecordedTraces
    /\ Blank
    /\ first_look = NoLook(TRUE)

SpecLook == InitLook /\ [][Next]_vars

(***************************************************************************)
(* Properties.                                                             *)
(***************************************************************************)
T == Len(sizes)
Rendered == pc = "ready" /\ call[1] = "update" /\ outcome = "ok"
InRange(frame) == 0 <= frame /\ frame < T
\* the frame update last read and the site index of lattice cell (row, col)
StateSizes == PyIndex(sizes, call[2])
Site(row, col) == row * meta.size + col
InGrid(b) ==
    /\ b.row < meta.size /\ b.col < meta.size
    /\ IF b.direction = HORIZONTAL THEN b.col + 1 < meta.size ELSE b.row + 1 < meta.size

\* C1: with len(bonds) = T - 1, after update(t), 0 <= t < T, the segments
\* shown are exactly the first t bond segments, in order; after update(0)
\* none is shown, whatever was rendered before.
C1_RevealIsPrefix ==
    (Rendered /\ InRange(call[2]) /\ Len(bonds) = T - 1) =>
        /\ Len(segments) = call[2]
        /\ segments = SubSeq(bond_segments, 1, call[2])

\* C2: the segment of every in-grid bond (row, col) joins the plotted
\* positions of sites (row, col) and (row, col + 1) when horizontal, of
\* sites (row, col) and (row + 1, col) when vertical.
C2_SegmentsJoinSites ==
    pc = "ready" =>
        \A k \in 1 .. Len(bonds) :
            InGrid(bonds[k]) =>
                LET b == bonds[k]
                    from == Site(b.row, b.col)
                    to == IF b.direction = HORIZONTAL
                          THEN Site(b.row, b.col + 1) ELSE Site(b.row + 1, b.col)
                IN  bond_segments[k] = <<scatter_offsets[from + 1], scatter_offsets[to + 1]>>

\* C3: whenever load_percolation returns a model, roots and sizes hold
\* T x L^2 entries, top_sizes holds T x K entries and bonds holds exactly
\* T - 1 records.
C3_LoadedCountsAgree ==
    pc \in {"loaded", "ready"} =>
        /\ Len(roots) = meta.total_states
        /\ Len(sizes) = meta.total_states
        /\ Len(top_sizes) = meta.total_states
        /\ \A t \in 1 .. meta.total_states :
              /\ Len(roots[t]) = meta.size * meta.size
              /\ Len(sizes[t]) = meta.size * meta.size
              /\ Len(top_sizes[t]) = TOP_N
        /\ Len(bonds) = meta.total_states - 1

\* C4: update(frame) with frame outside [0, T) ends in an error and renders
\* nothing.
C4_OutOfRangeIsAnError ==
    (pc = "ready" /\ call[1] = "update" /\ ~InRange(call[2])) => outcome # "ok"

\* C5: after update(t), 0 <= t < T, the line of every rank k holds the steps
\* 0 .. t against top_sizes[0][k], ..., top_sizes[t][k].
C5_SeriesIsPrefix ==
    (Rendered /\ InRange(call[2])) =>
        /\ Len(lines) = Len(top_sizes[1])
        /\ \A k \in 1 .. Len(lines) :
              /\ Len(lines[k].x) = call[2] + 1
              /\ Len(lines[k].y) = call[2] + 1
              /\ \A j \in 1 .. call[2] + 1 :
                    /\ lines[k].x[j] = j - 1
                    /\ lines[k].y[j] = top_sizes[j][k]

\* C5 witness: frame 2 is rendered and the largest cluster has grown by then.
C5_Witness ==
    /\ Rendered
    /\ call[2] = 2
    /\ Len(lines[1].y) = 3
    /\ lines[1].y[1] < lines[1].y[3]

\* C6: in a rendered frame every site of size 1 has the fixed color and the
\* fixed marker size, and only sites of size > 1 have anything else.
C6_OnlyLargerSitesStandOut ==
    (Rendered /\ InRange(call[2])) =>
        \A i \in 1 .. Len(StateSizes) :
            ~(StateSizes[i] > 1) =>
                /\ scatter_facecolors[i] = UnconnectedColor
                /\ scatter_sizes[i] = BaseNodeSize(meta.size)

\* C7: the divisor of the size ratios is at least 1 for every size array,
\* and every ratio lies in [0, 1].
C7_DivisorAtLeastOne ==
    (Rendered /\ InRange(call[2]) /\ AnyConnected(StateSizes)) =>
        /\ MaxConnected(StateSizes) >= 1
        /\ \A i \in 1 .. Len(StateSizes) :
              ConnectedMask(StateSizes[i]) =>
                  /\ SizeRatio(StateSizes[i], MaxConnected(StateSizes)) >= 0
                  /\ SizeRatio(StateSizes[i], MaxConnected(StateSizes)) <= FIX
                  /\ scatter_sizes[i] # NaN

\* C8: the marker of every connected site is base_size x (floor + (1 - floor)
\* x ratio^gamma) and is larger than the marker of an unconnected site.
C8_ConnectedMarkersLarger ==
    (Rendered /\ InRange(call[2]) /\ Len(bonds) = T - 1) =>
        \A i \in 1 .. Len(StateSizes) :
            StateSizes[i] > 1 =>
                /\ scatter_sizes[i] =
                      ConnectedNodeSize(BaseNodeSize(meta.size),
                                        SizeRatio(StateSizes[i], MaxConnected(StateSizes)))
                /\ scatter_sizes[i] > BaseNodeSize(meta.size)

\* C9: a frame whose size array equals that of the first frame ever rendered
\* is shown with the same colors and marker sizes, whatever was rendered in
\* between.
C9_SameSizesSameLook ==
    (Rendered /\ first_look.set /\ StateSizes = first_look.state_sizes) =>
        /\ scatter_sizes = first_look.sizes
        /\ scatter_facecolors = first_look.facecolors

\* C9 witness: another frame than the first one rendered, with the same size
\* array, some sites connected and some not.
C9_Witness ==
    /\ Rendered
    /\ InRange(call[2])
    /\ first_look.set
    /\ first_look.frame # call[2]
    /\ StateSizes = first_look.state_sizes
    /\ \E i, j \in 1 .. Len(StateSizes) : StateSizes[i] > 1 /\ StateSizes[j] = 1

\* C10: once loaded the trace never changes, and once computed neither do
\* the site coordinates and the bond segments.
C10_TraceIsReadOnly ==
    [][ /\ pc \in {"loaded", "ready"} => trace' = trace
        /\ pc = "ready" => layout' = layout ]_vars

\* C10 witness: frame 2 has been rendered, with connected sites to scale.
C10_Witness ==
    /\ Rendered
    /\ call[2] = 2
    /\ Len(segments) = 2
    /\ AnyConnected(StateSizes)

====
